---- MODULE Spec2Model ----
(***************************************************************************)
(* Model of the result cache (data_management/cache_manager.py) and of the *)
(* orchestrator (main.py: MaterialSimulation.run_comprehensive_simulation) *)
(* together with the collaborators the orchestrator calls.                 *)
(* Spec is one caller thread using the cache and the orchestrator,         *)
(* SpecConcurrent two threads calling the orchestrator at once, SpecDefects *)
(* the DefectDetector (defect_detection/defect_detector.py) applied to a   *)
(* structure, SpecImaging the TEMCalculator (tem_simulation/                *)
(* tem_calculator.py) serving the imaging stage of successive requests.    *)
(*                                                                         *)
(* A Python dict is modelled as the sequence of its values, each value a   *)
(* tag: "n1" a number, "None", "list", "tuple", "rec" a record of JSON     *)
(* native values, "obj" an object json cannot serialise (a numpy array, an *)
(* image object).  A cache file is modelled by its timestamp field, in the *)
(* ISO form isoformat() writes, and by the sequence of JSON tokens that    *)
(* json.dump wrote for the 'results' member.                               *)
(***************************************************************************)
EXTENDS Integers, Sequences, FiniteSets, TLC

VARIABLES now, advances, cache, req, lop, lastPut, det, tem

vars == <<now, advances, cache, req, lop, lastPut, det, tem>>

\* ------------------------------------------------------------------ bounds
\* number of times the clock is advanced in one behaviour
MaxAdvances == 1
\* clock resolution: ticks of the clock in one day
TicksPerDay == 2
\* atom coordinates lie on the grid 0..MaxCoord
MaxCoord == 4
\* grid resolution: grid steps in one length unit
StepsPerUnit == 2

\* ------------------------------------------------- constants of the program
\* get_results(self, calculation_id, max_age_days=30)
DefaultMaxAgeDays == 30

Ids == {"m1", "m2"}
Reqs == {1}
Stages == {"ff", "defects", "dft", "tem"}
\* max_age_days arguments a direct caller of the cache passes
MaxAges == {0, 1}
\* amounts by which the clock advances between two calls: one day, or one
\* tick more than the default retention
ClockSteps == {TicksPerDay, DefaultMaxAgeDays * TicksPerDay + 1}

\* payloads a direct caller passes to cache_results (results : dict)
DirectPayloads == {<<>>, <<"n1">>, <<"tuple">>, <<"obj">>}

\* ------------------------------------------------------------ return values
NoRet == [kind |-> "none", val |-> <<>>]
Absent == [kind |-> "absent", val |-> <<>>]
Payload(p) == [kind |-> "payload", val |-> p]
Raise(e) == [kind |-> "raise", val |-> <<e>>]

\* ------------------------------------------------ datetime and json (pure)
isoformat(t) == <<t \div TicksPerDay, t % TicksPerDay>>
fromisoformat(s) == s[1] * TicksPerDay + s[2]
timedelta(days) == days * TicksPerDay

Serializable(v) == v # "obj"

JsonEncode(v) ==
    CASE v = "n1" -> "1"
      [] v = "None" -> "null"
      [] v = "list" -> "[]"
      [] v = "tuple" -> "[]"
      [] v = "rec" -> "{..}"

JsonDecode(tok) ==
    CASE tok = "1" -> "n1"
      [] tok = "null" -> "None"
      [] tok = "[]" -> "list"
      [] tok = "{..}" -> "rec"

\* the tokens json.dump writes for the members of a dict, up to the first
\* member it cannot serialise (the encoder is a generator: what was yielded
\* before the TypeError is already written to the file)
RECURSIVE DumpItems(_)
DumpItems(items) ==
    IF items = <<>> \/ ~Serializable(Head(items))
    THEN <<>>
    ELSE <<JsonEncode(Head(items))>> \o DumpItems(Tail(items))

DumpOk(results) == \A i \in 1..Len(results) : Serializable(results[i])

json_dump(results) ==
    <<"{">> \o DumpItems(results) \o (IF DumpOk(results) THEN <<"}">> ELSE <<>>)

\* json.load succeeds only on a complete document
Loadable(file) ==
    /\ Len(file.timestamp) = 2
    /\ Len(file.text) >= 2
    /\ file.text[Len(file.text)] = "}"

json_load(file) == [i \in 1..(Len(file.text) - 2) |-> JsonDecode(file.text[i + 1])]

\* what a JSON round trip makes of a dict
RoundTrip(results) == [i \in 1..Len(results) |-> JsonDecode(JsonEncode(results[i]))]

\* ------------------------------------------------------------- CacheManager
Remove(c, id) == [i \in DOMAIN c \ {id} |-> c[i]]

\* mutant: one file holds the whole cache, a write replaces it
WriteFileShared(c, id, file) == [i \in {id} |-> file]

WriteFile(c, id, file) == [i \in DOMAIN c \cup {id} |-> IF i = id THEN file ELSE c[i]]

\* the file open(cache_file, 'w') leaves before anything is written to it
EmptyFile == [timestamp |-> <<>>, text |-> <<>>]

\* mutant: an entry whose age equals max_age counts as expired
ExpiredAtBoundary(file, max_age_days, t) ==
    t - fromisoformat(file.timestamp) >= timedelta(max_age_days)

Expired(file, max_age_days, t) ==
    t - fromisoformat(file.timestamp) > timedelta(max_age_days)

\* mutant: the write is buffered and never reaches the file
cache_results_unwritten(c, calculation_id, results, t) ==
    [cache |-> c, ret |-> IF DumpOk(results) THEN NoRet ELSE Raise("TypeError")]

\* cache_results: open(cache_file, 'w') truncates, json.dump writes, the with
\* block closes the file also when json.dump raises
cache_results(c, calculation_id, results, t) ==
    [cache |-> WriteFile(c, calculation_id,
                         [timestamp |-> isoformat(t), text |-> json_dump(results)]),
     ret |-> IF DumpOk(results) THEN NoRet ELSE Raise("TypeError")]

\* mutant: an expired entry is reported absent but left in place
get_results_keep(c, calculation_id, max_age_days, t) ==
    IF calculation_id \notin DOMAIN c
    THEN [cache |-> c, ret |-> Absent]
    ELSE IF ~Loadable(c[calculation_id])
    THEN [cache |-> c, ret |-> Raise("JSONDecodeError")]
    ELSE IF Expired(c[calculation_id], max_age_days, t)
    THEN [cache |-> c, ret |-> Absent]
    ELSE [cache |-> c, ret |-> Payload(json_load(c[calculation_id]))]

\* mutant: a hit refreshes the timestamp of the entry
get_results_touch(c, calculation_id, max_age_days, t) ==
    IF calculation_id \notin DOMAIN c
    THEN [cache |-> c, ret |-> Absent]
    ELSE IF ~Loadable(c[calculation_id])
    THEN [cache |-> c, ret |-> Raise("JSONDecodeError")]
    ELSE IF Expired(c[calculation_id], max_age_days, t)
    THEN [cache |-> Remove(c, calculation_id), ret |-> Absent]
    ELSE [cache |-> WriteFile(c, calculation_id,
                              [c[calculation_id] EXCEPT !.timestamp = isoformat(t)]),
          ret |-> Payload(json_load(c[calculation_id]))]

get_results(c, calculation_id, max_age_days, t) ==
    IF calculation_id \notin DOMAIN c
    THEN [cache |-> c, ret |-> Absent]
    ELSE IF ~Loadable(c[calculation_id])
    THEN [cache |-> c, ret |-> Raise("JSONDecodeError")]
    ELSE IF Expired(c[calculation_id], max_age_days, t)
    THEN [cache |-> Remove(c, calculation_id), ret |-> Absent]
    ELSE [cache |-> c, ret |-> Payload(json_load(c[calculation_id]))]

\* clear_cache walks os.listdir in the order the file system gives (order);
\* with max_age_days None (all = TRUE) every file is removed unread
RECURSIVE clear_cache(_, _, _, _, _)
clear_cache(c, order, all, max_age_days, t) ==
    IF order = <<>>
    THEN [cache |-> c, ret |-> NoRet]
    ELSE LET id == Head(order) IN
         IF all
         THEN clear_cache(Remove(c, id), Tail(order), all, max_age_days, t)
         ELSE IF ~Loadable(c[id])
         THEN [cache |-> c, ret |-> Raise("JSONDecodeError")]
         ELSE IF Expired(c[id], max_age_days, t)
         THEN clear_cache(Remove(c, id), Tail(order), all, max_age_days, t)
         ELSE clear_cache(c, Tail(order), all, max_age_days, t)

\* the orders in which os.listdir may list the files of the cache directory
ListDirOrders(c) ==
    {o \in [1..Cardinality(DOMAIN c) -> DOMAIN c] :
        \A i, j \in DOMAIN o : i # j => o[i] # o[j]}

\* ------------------------------------------------------------ collaborators
\* The collaborators are external engines: what a call yields is chosen among
\* the outcomes its wrapper can produce.  "raised" is an exception leaving the
\* wrapper, "None" the value the wrapper returns after catching one.

\* MaterialProjectInterface.get_structure: the structure record of the
\* material, or None when the request failed (every exception is caught)
FetchOutcomes(material_id) == {material_id, "None"}

\* calculate_force_field / run_dft: _convert_to_ase_atoms runs outside the
\* try block and subscripts the structure, the engine runs inside it
CaughtStageOutcomes(structure) ==
    IF structure = "None" THEN {"raised"} ELSE {"rec", "None", "raised"}

\* detect_defects: no try block; subscripts the structure first
DefectOutcomes(structure) ==
    IF structure = "None" THEN {"raised"} ELSE {"rec", "raised"}

\* _run_tem_simulation: no try block; the images are objects of the engine
TemOutcomes(structure) == {"rec", "obj", "raised"}

\* mutant: every stage catches its own failure and returns None
StageOutcomesAllCaught(s, structure) ==
    IF structure = "None" THEN {"None"} ELSE {"rec", "None"}

StageOutcomes(s, structure) ==
    CASE s = "ff" -> CaughtStageOutcomes(structure)
      [] s = "dft" -> CaughtStageOutcomes(structure)
      [] s = "defects" -> DefectOutcomes(structure)
      [] s = "tem" -> TemOutcomes(structure)

\* predict_properties: no try block
PredictOutcomes == {"rec", "raised"}

\* ----------------------------------------------------------- DefectDetector
\* Positions are points of a one-dimensional grid.  A numpy array is its
\* number of dimensions and the set of its rows.  A structure is given with
\* the sites of its ideal lattice (ideal) and with the positions its atoms
\* actually have (actual).
Grid == 0..MaxCoord

Array(ndim, points) == [ndim |-> ndim, points |-> points]

ListOf(points) == [kind |-> "list", val |-> points]

Abs(x) == IF x < 0 THEN -x ELSE x

\* ase.Atoms built from the structure: atoms.positions is an (n, 3) array
AtomsOf(structure) == [positions |-> Array(2, structure.actual)]

\* _get_perfect_lattice: return np.array([]), whatever the structure is
get_perfect_lattice(structure) == Array(1, {})

\* scipy.spatial.cKDTree(data): data must be of shape (n, m)
cKDTree(data) ==
    IF data.ndim # 2 THEN Raise("ValueError")
    ELSE [kind |-> "tree", val |-> data.points]

\* `dist, _ = tree.query(pos); dist > 0.5`: the nearest point of the tree is
\* farther than half a length unit (the distance to an empty tree is inf)
QueryFarther(tree, pos) ==
    \A q \in tree.val : 2 * Abs(pos - q) > StepsPerUnit

detect_vacancy(structure) ==
    LET perfect_positions == get_perfect_lattice(structure)
        actual_tree == cKDTree(AtomsOf(structure).positions)
        perfect_tree == cKDTree(perfect_positions)
    IN  IF actual_tree.kind = "raise" THEN actual_tree
        ELSE IF perfect_tree.kind = "raise" THEN perfect_tree
        ELSE ListOf({pos \in perfect_positions.points :
                        QueryFarther(actual_tree, pos)})

detect_interstitial(structure) ==
    LET perfect_positions == get_perfect_lattice(structure)
        perfect_tree == cKDTree(perfect_positions)
    IN  IF perfect_tree.kind = "raise" THEN perfect_tree
        ELSE ListOf({pos \in AtomsOf(structure).positions.points :
                        QueryFarther(perfect_tree, pos)})

\* detect_defects: self._convert_to_ase_atoms is called first, and the class
\* DefectDetector defines no such method
detect_defects(structure) == Raise("AttributeError")

\* the four keys of defect_types
DefectKinds == {"vacancy", "interstitial", "substitutional", "dislocation"}

\* _calculate_perfect_energy and _calculate_defect_energy: return 0.0
calculate_perfect_energy(atoms) == 0

calculate_defect_energy(atoms, defect_type, defect_positions) == 0

\* _calculate_formation_energies: one entry for each category whose list of
\* positions is not empty (`if defect_positions:`)
calculate_formation_energies(atoms, defects) ==
    LET perfect_energy == calculate_perfect_energy(atoms) IN
    [defect_type \in {k \in DOMAIN defects : defects[k] # {}} |->
        calculate_defect_energy(atoms, defect_type, defects[defect_type])
            - perfect_energy]

\* _estimate_concentration: return 0.0
estimate_concentration(defects) == 0

\* reference is the array the detectors took from _get_perfect_lattice;
\* defects, energies and concentration are the argument and the results of
\* the two estimators
IdleDet ==
    [ideal |-> {}, actual |-> {}, op |-> "none", vacancy |-> NoRet,
     interstitial |-> NoRet, reference |-> Array(0, {}),
     defects |-> [k \in DefectKinds |-> {}], energies |-> <<>>,
     concentration |-> 0]

Structures == [ideal : SUBSET Grid \ {{}}, actual : SUBSET Grid]

\* ------------------------------------------------------------ TEMCalculator
\* A structure dict is its material and whether it carries the 'cell' key:
\* get_structure builds dicts with 'lattice' and no 'cell', a caller of the
\* calculator builds them with 'cell'.  A potential is modelled by the
\* structure it was computed from.  The calls into the imaging engine
\* (Waves, Potential, multislice) return or raise (ok).
StructureData == [id : Ids, cell : BOOLEAN]

NoStructure == [id |-> "", cell |-> FALSE]

\* self.potential = None: no potential has been computed
NoPotential == [id |-> "None", cell |-> FALSE]

\* TEMCalculator.__init__: waves and potential are None; the attribute ctf
\* is not created, only setup_microscope assigns it and MaterialSimulation
\* never calls setup_microscope
IdleTem ==
    [pc |-> "idle", structure_data |-> NoStructure, waves |-> "None",
     potential |-> NoPotential, ctf |-> "unset", multisliced |-> NoPotential,
     error |-> ""]

\* _convert_to_ase_atoms subscripts 'atoms', 'positions' and 'cell'
convert_to_ase_atoms(structure_data) ==
    IF structure_data.cell THEN Payload(<<"Atoms">>) ELSE Raise("KeyError")

\* calculate_potential: the converted structure becomes self.potential
calculate_potential(t, structure_data, ok) ==
    IF convert_to_ase_atoms(structure_data).kind = "raise"
    THEN [t EXCEPT !.pc = "raised", !.error = "KeyError"]
    ELSE IF ~ok
         THEN [t EXCEPT !.pc = "raised", !.error = "engine"]
         ELSE [t EXCEPT !.pc = "multislice", !.potential = structure_data]

\* ------------------------------------------------------------------ state
NoPut == [valid |-> FALSE, p |-> <<>>, t |-> 0]

IdleReq ==
    [pc |-> "Idle", id |-> "", cached |-> NoRet, structure |-> "unset",
     stage |-> [s \in Stages |-> "idle"], predictions |-> "idle",
     results |-> <<>>, ret |-> NoRet, path |-> "none", cache0 |-> <<>>]

\* the last call a direct caller of the cache made: found is os.path.exists
\* at the call
NoOp == [op |-> "none", id |-> "", max_age_days |-> 0, found |-> FALSE, ret |-> NoRet]

Init ==
    /\ now = 0
    /\ advances = 0
    /\ cache = <<>>
    /\ req = [r \in Reqs |-> IdleReq]
    /\ lop = NoOp
    /\ lastPut = [i \in Ids |-> NoPut]
    /\ det = IdleDet
    /\ tem = IdleTem

AllIdle == \A r \in Reqs : req[r].pc = "Idle"

\* ghost: the payload and the time of the last completed put of an
\* identifier; forgotten when a put for the identifier is called again
PutGhost(id, results, ret, t) ==
    [lastPut EXCEPT ![id] = IF ret.kind = "raise" THEN NoPut
                            ELSE [valid |-> TRUE, p |-> results, t |-> t]]

\* ghost: forgotten too when the entry is removed (a purge, an expiring get)
RemovalGhost(after) ==
    [i \in DOMAIN lastPut |-> IF i \in DOMAIN cache /\ i \notin DOMAIN after
                   THEN NoPut ELSE lastPut[i]]

\* ------------------------------------------------- the clock (datetime.now)
\* time passes between two calls of the single caller thread
Tick(d) ==
    /\ AllIdle
    /\ advances < MaxAdvances
    /\ now' = now + d
    /\ advances' = advances + 1
    /\ lop' = NoOp
    /\ UNCHANGED <<det, tem, cache, req, lastPut>>

\* ---------------------------------------- direct callers of the CacheManager
Put(id, p) ==
    /\ AllIdle
    /\ LET c == cache_results(cache, id, p, now) IN
         /\ cache' = c.cache
         /\ lop' = [op |-> "put", id |-> id, max_age_days |-> 0,
                    found |-> id \in DOMAIN cache, ret |-> c.ret]
         /\ lastPut' = PutGhost(id, p, c.ret, now)
    /\ UNCHANGED <<det, tem, now, advances, req>>

Get(id, m) ==
    /\ AllIdle
    /\ LET g == get_results(cache, id, m, now) IN
         /\ cache' = g.cache
         /\ lop' = [op |-> "get", id |-> id, max_age_days |-> m,
                    found |-> id \in DOMAIN cache, ret |-> g.ret]
         /\ lastPut' = RemovalGhost(g.cache)
    /\ UNCHANGED <<det, tem, now, advances, req>>

Purge(all, m, order) ==
    /\ AllIdle
    /\ LET c == clear_cache(cache, order, all, m, now) IN
         /\ cache' = c.cache
         /\ lop' = [op |-> IF all THEN "purge_all" ELSE "purge", id |-> "",
                    max_age_days |-> m, found |-> FALSE, ret |-> c.ret]
         /\ lastPut' = RemovalGhost(c.cache)
    /\ UNCHANGED <<det, tem, now, advances, req>>

\* ------------------------------ MaterialSimulation.run_comprehensive_simulation
Start(r, material_id) ==
    /\ AllIdle
    /\ req' = [req EXCEPT ![r] = [IdleReq EXCEPT !.pc = "CacheCheck",
                                                 !.id = material_id,
                                                 !.cache0 = cache]]
    /\ lop' = NoOp
    /\ UNCHANGED <<det, tem, now, advances, cache, lastPut>>

\* `if cached_results:` is Python truthiness: an empty dict is false
Truthy(ret) == ret.kind = "payload" /\ Len(ret.val) > 0

CacheCheck(r) ==
    /\ req[r].pc = "CacheCheck"
    /\ LET g == get_results(cache, req[r].id, DefaultMaxAgeDays, now) IN
         /\ cache' = g.cache
         /\ lastPut' = RemovalGhost(g.cache)
         /\ req' = [req EXCEPT ![r] =
                IF g.ret.kind = "raise"
                THEN [@ EXCEPT !.pc = "Error", !.cached = g.ret, !.ret = g.ret]
                ELSE IF Truthy(g.ret)
                THEN [@ EXCEPT !.pc = "Done", !.cached = g.ret, !.ret = g.ret,
                               !.path = "hit"]
                ELSE [@ EXCEPT !.pc = "Fetch", !.cached = g.ret, !.path = "miss"]]
    /\ UNCHANGED <<det, tem, now, advances, lop>>

Fetch(r) ==
    /\ req[r].pc = "Fetch"
    /\ \E s \in FetchOutcomes(req[r].id) :
         req' = [req EXCEPT ![r].structure = s, ![r].pc = "Dispatch"]
    /\ UNCHANGED <<det, tem, now, advances, cache, lop, lastPut>>

\* mutant: the cache file of the request is opened when the stages are
\* submitted
DispatchEager(r) ==
    /\ req[r].pc = "Dispatch"
    /\ req' = [req EXCEPT ![r].stage = [s \in Stages |-> "pending"],
                          ![r].pc = "Join"]
    /\ cache' = WriteFile(cache, req[r].id, EmptyFile)
    /\ UNCHANGED <<det, tem, now, advances, lop, lastPut>>

\* the four executor.submit calls
Dispatch(r) ==
    /\ req[r].pc = "Dispatch"
    /\ req' = [req EXCEPT ![r].stage = [s \in Stages |-> "pending"],
                          ![r].pc = "Join"]
    /\ UNCHANGED <<det, tem, now, advances, cache, lop, lastPut>>

\* mutant: the force-field stage writes the optimised positions back into
\* the structure it was given
StageRunInPlace(r, s) ==
    /\ req[r].stage[s] = "pending"
    /\ \E out \in StageOutcomes(s, req[r].structure) :
         req' = [req EXCEPT ![r].stage[s] = out,
                            ![r].structure = IF s = "ff" /\ out = "rec"
                                             THEN "optimized" ELSE @]
    /\ UNCHANGED <<det, tem, now, advances, cache, lop, lastPut>>

\* a worker thread of the pool runs one submitted stage to its end; a stage
\* reads the structure dict and builds its own Atoms object from it
StageRun(r, s) ==
    /\ req[r].stage[s] = "pending"
    /\ \E out \in StageOutcomes(s, req[r].structure) :
         req' = [req EXCEPT ![r].stage[s] = out]
    /\ UNCHANGED <<det, tem, now, advances, cache, lop, lastPut>>

\* mutant: the join returns as soon as one stage has finished
JoinReadyFirst(stage) == \E s \in Stages : stage[s] \notin {"idle", "pending"}

\* leaving the `with ThreadPoolExecutor()` block is shutdown(wait=True)
JoinReady(stage) == \A s \in Stages : stage[s] \notin {"idle", "pending"}

StageOrder == <<"ff", "defects", "dft", "tem">>

\* future.result() re-raises the exception of its stage
AnyRaised(stage) == \E s \in Stages : stage[s] = "raised"

\* the exception that leaves run: the stages fed None fail on subscripting it
JoinError(structure) ==
    IF structure = "None" THEN Raise("TypeError") ELSE Raise("StageError")

\* mutant: the join collects the four results and is never told of a stage
\* that raised
JoinAwaitsResults(r) ==
    /\ req[r].pc = "Join"
    /\ \A s \in Stages : req[r].stage[s] \in {"rec", "None", "obj"}
    /\ req' = [req EXCEPT ![r] =
           [@ EXCEPT !.pc = "Predict",
                     !.results = [i \in 1..4 |-> req[r].stage[StageOrder[i]]]]]
    /\ UNCHANGED <<det, tem, now, advances, cache, lop, lastPut>>

Join(r) ==
    /\ req[r].pc = "Join"
    /\ JoinReady(req[r].stage)
    /\ req' = [req EXCEPT ![r] =
           IF AnyRaised(req[r].stage)
           THEN [@ EXCEPT !.pc = "Error", !.ret = JoinError(req[r].structure)]
           ELSE [@ EXCEPT !.pc = "Predict",
                          !.results = [i \in 1..4 |-> req[r].stage[StageOrder[i]]]]]
    /\ UNCHANGED <<det, tem, now, advances, cache, lop, lastPut>>

Predict(r) ==
    /\ req[r].pc = "Predict"
    /\ \E out \in PredictOutcomes :
         req' = [req EXCEPT ![r] =
             IF out = "raised"
             THEN [@ EXCEPT !.pc = "Error", !.predictions = out,
                            !.ret = Raise("PredictError")]
             ELSE [@ EXCEPT !.pc = "Store", !.predictions = out,
                            !.results = Append(@, out)]]
    /\ UNCHANGED <<det, tem, now, advances, cache, lop, lastPut>>

\* cache_results(material_id, results); return results
Store(r) ==
    /\ req[r].pc = "Store"
    /\ LET c == cache_results(cache, req[r].id, req[r].results, now) IN
         /\ cache' = c.cache
         /\ lastPut' = PutGhost(req[r].id, req[r].results, c.ret, now)
         /\ req' = [req EXCEPT ![r] =
                IF c.ret.kind = "raise"
                THEN [@ EXCEPT !.pc = "Error", !.ret = c.ret]
                ELSE [@ EXCEPT !.pc = "Done", !.ret = Payload(req[r].results)]]
    /\ UNCHANGED <<det, tem, now, advances, lop>>

\* the caller takes the result (or the exception) of run
Finish(r) ==
    /\ req[r].pc \in {"Done", "Error"}
    /\ req' = [req EXCEPT ![r] = IdleReq]
    /\ UNCHANGED <<det, tem, now, advances, cache, lop, lastPut>>

Next ==
    \/ \E d \in ClockSteps : Tick(d)
    \/ \E id \in Ids, p \in DirectPayloads : Put(id, p)
    \/ \E id \in Ids, m \in MaxAges : Get(id, m)
    \/ \E all \in BOOLEAN, m \in MaxAges, order \in ListDirOrders(cache) :
          Purge(all, m, order)
    \/ \E r \in Reqs, id \in Ids : Start(r, id)
    \/ \E r \in Reqs : CacheCheck(r)
    \/ \E r \in Reqs : Fetch(r)
    \/ \E r \in Reqs : Dispatch(r)
    \/ \E r \in Reqs, s \in Stages : StageRun(r, s)
    \/ \E r \in Reqs : Join(r)
    \/ \E r \in Reqs : Predict(r)
    \/ \E r \in Reqs : Store(r)
    \/ \E r \in Reqs : Finish(r)

Spec == Init /\ [][Next]_vars

\* ------------------------------------------------------------ fair schedule
\* The thread that executes run proceeds whenever it can, and every submitted
\* stage is run by a worker of the pool and returns or raises (the pool has
\* more workers than the four stages).
RunStep(r) ==
    \/ CacheCheck(r)
    \/ Fetch(r)
    \/ Dispatch(r)
    \/ Join(r)
    \/ Predict(r)
    \/ Store(r)

Fairness ==
    \A r \in Reqs :
        /\ WF_vars(RunStep(r))
        /\ \A s \in Stages : WF_vars(StageRun(r, s))

SpecFair == Init /\ [][Next]_vars /\ Fairness

\* ------------------------------------ concurrent callers of one orchestrator
\* Two threads call run_comprehensive_simulation on the same MaterialSimulation
\* object.  Nothing in run or in the CacheManager takes a lock, so the steps
\* of the two calls interleave freely; a call of cache_results is two steps,
\* the open that truncates the file and the write of the buffered text when
\* the with block closes it.
Threads == {1, 2}
Materials == {"m1", "m2", "m3", "m4", "m5"}

\* A deterministic environment: what the data source and the engines yield
\* for each material.  m1 computes everywhere, the force field of m2 fails
\* inside its try block, the structure of m3 cannot be fetched, the defect
\* detection of m4 raises, the prediction of m5 raises.
EnvFetch(material_id) == IF material_id = "m3" THEN "None" ELSE material_id

EnvStage(s, structure) ==
    IF structure = "None" THEN "raised"
    ELSE IF structure = "m2" /\ s = "ff" THEN "None"
    ELSE IF structure = "m4" /\ s = "defects" THEN "raised"
    ELSE "rec"

EnvPredict(structure) == IF structure = "m5" THEN "raised" ELSE "rec"

Deterministic(rq) ==
    /\ rq.structure \in {"unset", EnvFetch(rq.id)}
    /\ \A s \in Stages : rq.stage[s] \in {"idle", "pending", EnvStage(s, rq.structure)}
    /\ rq.predictions \in {"idle", EnvPredict(rq.structure)}

InitConcurrent ==
    /\ now = 0
    /\ advances = 0
    /\ cache = <<>>
    /\ req = [r \in Threads |-> IdleReq]
    /\ lop = NoOp
    /\ lastPut = [i \in Materials |-> NoPut]
    /\ det = IdleDet
    /\ tem = IdleTem

\* a thread calls run(material_id), whatever the other thread is doing
Call(r, material_id) ==
    /\ req[r].pc = "Idle"
    /\ req' = [req EXCEPT ![r] = [IdleReq EXCEPT !.pc = "CacheCheck",
                                                 !.id = material_id,
                                                 !.cache0 = cache]]
    /\ UNCHANGED <<det, tem, now, advances, cache, lop, lastPut>>

\* cache_results, first step: open(cache_file, 'w')
StoreOpen(r) ==
    /\ req[r].pc = "Store"
    /\ cache' = WriteFile(cache, req[r].id, EmptyFile)
    /\ req' = [req EXCEPT ![r].pc = "Storing"]
    /\ UNCHANGED <<det, tem, now, advances, lop, lastPut>>

\* cache_results, second step: json.dump and the close of the file; then
\* return results
StoreDump(r) ==
    /\ req[r].pc = "Storing"
    /\ LET c == cache_results(cache, req[r].id, req[r].results, now) IN
         /\ cache' = c.cache
         /\ lastPut' = PutGhost(req[r].id, req[r].results, c.ret, now)
         /\ req' = [req EXCEPT ![r] =
                IF c.ret.kind = "raise"
                THEN [@ EXCEPT !.pc = "Error", !.ret = c.ret]
                ELSE [@ EXCEPT !.pc = "Done", !.ret = Payload(req[r].results)]]
    /\ UNCHANGED <<det, tem, now, advances, lop>>

NextConcurrent ==
    \/ \E r \in Threads, id \in Materials : Call(r, id)
    \/ \E r \in Threads : CacheCheck(r)
    \/ \E r \in Threads : Fetch(r) /\ Deterministic(req'[r])
    \/ \E r \in Threads : Dispatch(r)
    \/ \E r \in Threads, s \in Stages : StageRun(r, s) /\ Deterministic(req'[r])
    \/ \E r \in Threads : Join(r)
    \/ \E r \in Threads : Predict(r) /\ Deterministic(req'[r])
    \/ \E r \in Threads : StoreOpen(r)
    \/ \E r \in Threads : StoreDump(r)
    \/ \E r \in Threads : Finish(r)

SpecConcurrent == InitConcurrent /\ [][NextConcurrent]_vars

\* ------------------------------------- callers of the DefectDetector
InitDefects ==
    /\ now = 0
    /\ advances = 0
    /\ cache = <<>>
    /\ req = [r \in Reqs |-> IdleReq]
    /\ lop = NoOp
    /\ lastPut = [i \in Ids |-> NoPut]
    /\ tem = IdleTem
    /\ \E st \in Structures :
         det = [IdleDet EXCEPT !.ideal = st.ideal, !.actual = st.actual]

\* the defect stage of a run: detect_defects(structure)
DetectDefects ==
    /\ det.op = "none"
    /\ LET out == detect_defects([ideal |-> det.ideal, actual |-> det.actual]) IN
         det' = [det EXCEPT !.op = "detect_defects",
                            !.vacancy = out, !.interstitial = out]
    /\ UNCHANGED <<now, advances, cache, req, lop, lastPut, tem>>

\* the two detectors of defect_types called on the atoms of the structure
\* (the loop of detect_defects; a caller that holds an Atoms object)
RunDetectors ==
    /\ det.op = "none"
    /\ LET st == [ideal |-> det.ideal, actual |-> det.actual] IN
         det' = [det EXCEPT !.op = "detectors",
                            !.reference = get_perfect_lattice(st),
                            !.vacancy = detect_vacancy(st),
                            !.interstitial = detect_interstitial(st)]
    /\ UNCHANGED <<now, advances, cache, req, lop, lastPut, tem>>

\* the defects dict a caller hands to the estimators: the ideal sites without
\* an atom as vacancies, the atoms off the ideal sites as interstitials
DefectsOf(structure) ==
    [k \in DefectKinds |->
        IF k = "vacancy" THEN structure.ideal \ structure.actual
        ELSE IF k = "interstitial" THEN structure.actual \ structure.ideal
        ELSE {}]

\* the two estimators detect_defects applies to the defects dict (lines 97
\* and 102), called on the atoms of the structure and on such a dict
RunEstimators ==
    /\ det.op = "none"
    /\ LET st == [ideal |-> det.ideal, actual |-> det.actual]
           defects == DefectsOf(st)
       IN  det' = [det EXCEPT
                !.op = "estimators",
                !.defects = defects,
                !.energies = calculate_formation_energies(AtomsOf(st), defects),
                !.concentration = estimate_concentration(defects)]
    /\ UNCHANGED <<now, advances, cache, req, lop, lastPut, tem>>

NextDefects == DetectDefects \/ RunDetectors \/ RunEstimators

SpecDefects == InitDefects /\ [][NextDefects]_vars

\* ------------------------------------ imaging stage of successive requests
\* One orchestrator, one TEMCalculator; each request's imaging stage is a
\* call of _run_tem_simulation with the request's structure.
InitImaging ==
    /\ now = 0
    /\ advances = 0
    /\ cache = <<>>
    /\ req = [r \in Reqs |-> IdleReq]
    /\ lop = NoOp
    /\ lastPut = [i \in Ids |-> NoPut]
    /\ det = IdleDet
    /\ tem = IdleTem

\* _run_tem_simulation calls simulate_hrtem, which calls run_multislice
RunTemSimulation(structure) ==
    /\ tem.pc = "idle"
    /\ tem' = [tem EXCEPT !.pc = "waves", !.structure_data = structure,
                          !.multisliced = NoPotential, !.error = ""]
    /\ UNCHANGED <<now, advances, cache, req, lop, lastPut, det>>

\* run_multislice: self.waves = Waves(energy=...)
SetWaves(ok) ==
    /\ tem.pc = "waves"
    /\ tem' = IF ok
              THEN [tem EXCEPT !.pc = "potential", !.waves = "Waves"]
              ELSE [tem EXCEPT !.pc = "raised", !.error = "engine"]
    /\ UNCHANGED <<now, advances, cache, req, lop, lastPut, det>>

\* run_multislice: if self.potential is None: self.calculate_potential(...)
EnsurePotential(ok) ==
    /\ tem.pc = "potential"
    /\ tem' = IF tem.potential = NoPotential
              THEN calculate_potential(tem, tem.structure_data, ok)
              ELSE [tem EXCEPT !.pc = "multislice"]
    /\ UNCHANGED <<now, advances, cache, req, lop, lastPut, det>>

\* run_multislice: exit_waves = self.waves.multislice(self.potential)
Multislice(ok) ==
    /\ tem.pc = "multislice"
    /\ tem' = IF ok
              THEN [tem EXCEPT !.pc = "apply_ctf",
                               !.multisliced = tem.potential]
              ELSE [tem EXCEPT !.pc = "raised", !.error = "engine",
                               !.multisliced = tem.potential]
    /\ UNCHANGED <<now, advances, cache, req, lop, lastPut, det>>

\* simulate_hrtem: exit_waves.apply_ctf(self.ctf) reads the attribute ctf;
\* reading an attribute that was never assigned raises AttributeError, so
\* simulate_hrtem does not return and simulate_stem is not reached
ApplyCtf ==
    /\ tem.pc = "apply_ctf"
    /\ tem' = IF tem.ctf = "unset"
              THEN [tem EXCEPT !.pc = "raised", !.error = "AttributeError"]
              ELSE [tem EXCEPT !.pc = "stem"]
    /\ UNCHANGED <<now, advances, cache, req, lop, lastPut, det>>

\* the exception leaves _run_tem_simulation; the calculator keeps its fields
TemRaised ==
    /\ tem.pc = "raised"
    /\ tem' = [tem EXCEPT !.pc = "idle"]
    /\ UNCHANGED <<now, advances, cache, req, lop, lastPut, det>>

NextImaging ==
    \/ \E structure \in StructureData : RunTemSimulation(structure)
    \/ \E ok \in BOOLEAN : SetWaves(ok)
    \/ \E ok \in BOOLEAN : EnsurePotential(ok)
    \/ \E ok \in BOOLEAN : Multislice(ok)
    \/ ApplyCtf
    \/ TemRaised

SpecImaging == InitImaging /\ [][NextImaging]_vars

\* ------------------------------------------------------------------ claims
Finished == {"rec", "None", "obj", "raised"}

Within(t, max_age_days) == now - t <= timedelta(max_age_days)

FollowsPut(id, max_age_days) ==
    lastPut[id].valid /\ Within(lastPut[id].t, max_age_days)

JsonExact(p) == RoundTrip(p) = p

\* C1 as stated: a get(id, max_age) that follows put(id, p), with no put or
\* purge for id in between and within the retention window, returns exactly p.
C1_RoundTripExact ==
    [][\A id \in Ids, m \in MaxAges :
         (Get(id, m) /\ FollowsPut(id, m)) => lop'.ret = Payload(lastPut[id].p)]_vars

\* C1 amended: the same for every payload p that JSON represents exactly
\* (p is what a JSON round trip makes of p), with no put, purge or expiring
\* get for id in between: the get returns a payload equal to p.  The get of
\* the orchestrator's CacheCheck is such a get.
C1_RoundTripJson ==
    [][/\ \A id \in Ids, m \in MaxAges :
            (Get(id, m) /\ FollowsPut(id, m) /\ JsonExact(lastPut[id].p))
            => lop'.ret = Payload(lastPut[id].p)
       /\ \A r \in Reqs :
            (CacheCheck(r) /\ FollowsPut(req[r].id, DefaultMaxAgeDays)
                /\ JsonExact(lastPut[req[r].id].p))
            => req'[r].cached = Payload(lastPut[req[r].id].p)]_vars

C1_Witness ==
    /\ lop.op = "get"
    /\ lastPut[lop.id].valid
    /\ lastPut[lop.id].p = <<"n1">>
    /\ now = lastPut[lop.id].t + timedelta(lop.max_age_days)
    /\ now > lastPut[lop.id].t
    /\ lop.ret = Payload(<<"n1">>)

\* C2: get(id, max_age) returns the stored payload if and only if an entry
\* for id exists and now - entry.timestamp <= max_age; in every other case it
\* returns absent.
C2_GetHitIffFresh ==
    [][\A id \in Ids, m \in MaxAges :
         Get(id, m) =>
            IF id \in DOMAIN cache /\ ~Expired(cache[id], m, now)
            THEN /\ lop'.ret.kind = "payload"
                 /\ Loadable(cache[id]) => lop'.ret.val = json_load(cache[id])
            ELSE lop'.ret = Absent]_vars

\* C3: a get that finds an entry older than max_age returns absent, and when
\* it returns no entry for id exists; the entries of the other identifiers
\* are untouched.  The get of the orchestrator's CacheCheck is such a get.
OthersUntouched(id) ==
    \A o \in Ids \ {id} :
        /\ o \in DOMAIN cache <=> o \in DOMAIN cache'
        /\ o \in DOMAIN cache => cache'[o] = cache[o]

FindsExpired(id, m) ==
    id \in DOMAIN cache /\ Loadable(cache[id]) /\ Expired(cache[id], m, now)

C3_ExpiredGetRemoves ==
    [][/\ \A id \in Ids, m \in MaxAges :
            (Get(id, m) /\ FindsExpired(id, m))
            => (lop'.ret = Absent /\ id \notin DOMAIN cache' /\ OthersUntouched(id))
       /\ \A r \in Reqs :
            (CacheCheck(r) /\ FindsExpired(req[r].id, DefaultMaxAgeDays))
            => (req'[r].cached = Absent /\ req[r].id \notin DOMAIN cache'
                /\ OthersUntouched(req[r].id))]_vars

C3_Witness ==
    /\ lop.op = "get"
    /\ lop.found
    /\ lop.ret = Absent
    /\ lop.id \notin DOMAIN cache
    /\ \E o \in Ids \ {lop.id} : o \in DOMAIN cache /\ Loadable(cache[o])

\* C4: a corrupted or unreadable entry makes get return absent instead of
\* raising, so run(id) on an identifier whose entry is corrupt does not end
\* with the error of the cache read.
C4_CorruptIsMiss ==
    /\ lop.op = "get" => lop.ret.kind # "raise"
    /\ \A r \in Reqs : req[r].cached.kind # "raise"

\* C5: on a cache hit (get_results returned the stored payload) run goes from
\* CacheCheck directly to Done: it returns the cached payload, fetches no
\* structure, dispatches no stage, runs no prediction.
C5_HitGoesToDone ==
    \A r \in Reqs :
        req[r].cached.kind = "payload"
        => /\ req[r].pc = "Done"
           /\ req[r].ret = req[r].cached
           /\ req[r].structure = "unset"
           /\ \A s \in Stages : req[r].stage[s] = "idle"
           /\ req[r].predictions = "idle"

C7_JoinWaitsForAll ==
    \A r \in Reqs :
        /\ (\E s \in Stages : req[r].stage[s] = "pending") => req[r].pc = "Join"
        /\ (req[r].pc \in {"Predict", "Store"} \/ req[r].predictions # "idle")
           => \A s \in Stages : req[r].stage[s] \in Finished

C7_Witness ==
    \E r \in Reqs :
        /\ req[r].pc = "Store"
        /\ req[r].predictions = "rec"
        /\ \A s \in Stages : req[r].stage[s] \in Finished

\* C8: a failed structure fetch ends run at Fetch with DataUnavailableError:
\* no stage is dispatched and no prediction is run.
C8_FetchFailureTerminal ==
    \A r \in Reqs :
        req[r].structure = "None"
        => /\ req[r].pc = "Error"
           /\ req[r].ret = Raise("DataUnavailableError")
           /\ \A s \in Stages : req[r].stage[s] = "idle"
           /\ req[r].predictions = "idle"

\* C9 as stated: a run whose structure fetch fails leaves the cache unchanged.
C9_FetchFailureCacheUnchanged ==
    \A r \in Reqs : req[r].structure = "None" => cache = req[r].cache0

\* C9 amended: a run whose structure fetch fails writes nothing to the cache:
\* every entry present afterwards was present before, unmodified, and the
\* only entry it may remove is the expired entry of id itself (the get of
\* CacheCheck).
C9_FetchFailureNoWrite ==
    \A r \in Reqs :
        req[r].structure = "None"
        => /\ \A i \in DOMAIN cache :
                i \in DOMAIN req[r].cache0 /\ cache[i] = req[r].cache0[i]
           /\ \A i \in DOMAIN req[r].cache0 \ DOMAIN cache :
                /\ i = req[r].id
                /\ Loadable(req[r].cache0[i])
                /\ Expired(req[r].cache0[i], DefaultMaxAgeDays, now)

C9_Witness ==
    \E r \in Reqs :
        /\ req[r].structure = "None"
        /\ req[r].pc = "Error"
        /\ req[r].id \in DOMAIN req[r].cache0
        /\ req[r].id \notin DOMAIN cache
        /\ \E o \in Ids \ {req[r].id} : o \in DOMAIN cache

\* C10: the failure of a single dispatched stage is isolated: run still
\* returns a result (and caches it) when one stage has failed.
C10_StageFailureIsolated ==
    \A r \in Reqs :
        (req[r].structure \in Ids /\ \E s \in Stages : req[r].stage[s] = "raised")
        => req[r].pc # "Error"

\* C11: the failure of Predict is not fatal: when predict_properties fails
\* after the four stages have been joined, run still returns the joined
\* results and stores them in the cache.
C11_PredictFailureNotFatal ==
    \A r \in DOMAIN req :
        req[r].predictions = "raised"
        => /\ req[r].pc \in {"Store", "Done"}
           /\ req[r].pc = "Done" => (req[r].ret.kind = "payload"
                                      /\ req[r].id \in DOMAIN cache)

\* C16: after purge(max_age) the cache holds exactly the entries that were
\* present before and whose age is not greater than max_age; after a purge
\* with no max_age it holds no entry.
Restrict(c, keep) == [i \in keep |-> c[i]]

C16_PurgeKeepsExactlyFresh ==
    [][\A all \in BOOLEAN, m \in MaxAges, order \in ListDirOrders(cache) :
         Purge(all, m, order) =>
            cache' = IF all THEN Restrict(cache, {})
                     ELSE Restrict(cache, {i \in DOMAIN cache :
                                              ~Expired(cache[i], m, now)})]_vars

\* C17: put(id, p2) on an identifier that already has an entry overwrites it:
\* afterwards the entry of id has payload p2 and the time of this put as its
\* timestamp, so that its age counts from this put.
C17_PutOverwrites ==
    [][\A id \in Ids, p \in DirectPayloads :
         (Put(id, p) /\ id \in DOMAIN cache) =>
            /\ id \in DOMAIN cache'
            /\ Loadable(cache'[id])
            /\ json_load(cache'[id]) = p
            /\ fromisoformat(cache'[id].timestamp) = now]_vars


\* C12: for one orchestrator and one identifier at most one Dispatch is in
\* flight at any time: two overlapping run(id) calls for the same id never
\* both have their stages submitted and not yet joined.
InFlight(rq) == rq.pc = "Join"

C12_OneDispatchPerId ==
    \A r1, r2 \in DOMAIN req :
        (r1 # r2 /\ req[r1].id = req[r2].id)
        => ~(InFlight(req[r1]) /\ InFlight(req[r2]))

\* C13: with deterministic stages, two concurrent run(id) calls for the same
\* identifier both end as a single sequential run(id) ends: when both have
\* ended they have returned the same result, and when that is a record the
\* cache entry of id holds it.
Ended(rq) == rq.pc \in {"Done", "Error"}

C13_ConcurrentSameResult ==
    \A r1, r2 \in DOMAIN req :
        (r1 # r2 /\ req[r1].id = req[r2].id /\ Ended(req[r1]) /\ Ended(req[r2]))
        => /\ req[r1].ret = req[r2].ret
           /\ req[r1].ret.kind = "payload"
              => /\ req[r1].id \in DOMAIN cache
                 /\ Loadable(cache[req[r1].id])
                 /\ Payload(json_load(cache[req[r1].id])) = req[r1].ret

\* C14: a put is atomic with respect to a concurrent get of the same
\* identifier: whenever a reader is about to read the entry of id, there is
\* no entry, or a complete entry; never an empty or half-written one.
C14_ReaderSeesWholeEntry ==
    \A r \in DOMAIN req :
        (req[r].pc = "CacheCheck" /\ req[r].id \in DOMAIN cache)
        => Loadable(cache[req[r].id])

\* C15: writes for distinct identifiers do not interfere: each step of a put
\* for id1 (the open, and the write) leaves the entry of every other
\* identifier as it was, timestamp and payload, also while a put for another
\* identifier is under way.
SameElsewhere(id) ==
    \A o \in (DOMAIN cache \cup DOMAIN cache') \ {id} :
        o \in DOMAIN cache /\ o \in DOMAIN cache' /\ cache'[o] = cache[o]

C15_WritesDoNotInterfere ==
    [][\A r \in DOMAIN req :
         (StoreOpen(r) \/ StoreDump(r)) => SameElsewhere(req[r].id)]_vars

C15_Witness ==
    \E r1, r2 \in DOMAIN req :
        /\ req[r1].pc = "Storing"
        /\ req[r2].pc = "Done"
        /\ req[r1].id # req[r2].id
        /\ req[r1].id \in DOMAIN cache /\ cache[req[r1].id] = EmptyFile
        /\ req[r2].id \in DOMAIN cache
        /\ Payload(json_load(cache[req[r2].id])) = req[r2].ret
        /\ req[r2].path = "miss"

\* C18: a cache entry for an identifier exists only if a run for that
\* identifier completed its computation and reached Store: every step that
\* creates or changes the entry of id is a step of the Store of a run for id
\* whose four stages and prediction have returned, so a request that aborts
\* before Store leaves no entry behind.
EntryWritten(id) ==
    id \in DOMAIN cache' /\ (id \in DOMAIN cache => cache'[id] # cache[id])

Computed(rq) ==
    /\ rq.structure \notin {"unset", "None"}
    /\ \A s \in Stages : rq.stage[s] \in Finished \ {"raised"}
    /\ rq.predictions \in Finished \ {"raised"}

C18_EntryOnlyAfterStore ==
    [][\A id \in Materials :
         EntryWritten(id) =>
            \E r \in DOMAIN req :
                /\ req[r].id = id
                /\ req[r].pc \in {"Store", "Storing"}
                /\ Computed(req[r])
                /\ req'[r].pc \in {"Storing", "Done", "Error"}]_vars

C18_Witness ==
    \E r1, r2 \in DOMAIN req :
        /\ req[r1].pc = "Error" /\ req[r1].structure = "None"
        /\ req[r2].pc = "Error" /\ req[r2].structure = "m4"
        /\ \A id \in {"m3", "m4"} : id \notin DOMAIN cache
        /\ \E id \in DOMAIN cache : Loadable(cache[id])


\* C19: for every structure whose actual atom positions equal its ideal
\* lattice positions, defect classification reports zero vacancies and zero
\* interstitials.
Classified == det.op \in {"detect_defects", "detectors"}

C19_PerfectHasNoDefects ==
    (Classified /\ det.actual = det.ideal)
    => /\ det.vacancy.kind = "list" /\ det.vacancy.val = {}
       /\ det.interstitial.kind = "list" /\ det.interstitial.val = {}

\* C20: for a structure that matches its ideal lattice except that the atom
\* of one ideal site is removed, with no remaining atom within the tolerance
\* of that site, defect classification reports exactly one vacancy, at that
\* site, and no interstitial.
OneRemoved(site) ==
    /\ site \in det.ideal
    /\ det.actual = det.ideal \ {site}
    /\ \A a \in det.actual : 2 * Abs(a - site) > StepsPerUnit

C20_OneVacancyAtRemovedSite ==
    \A site \in Grid :
        (Classified /\ OneRemoved(site))
        => /\ det.vacancy.kind = "list" /\ det.vacancy.val = {site}
           /\ det.interstitial.kind = "list" /\ det.interstitial.val = {}


\* C21: for a structure that matches its ideal lattice plus one extra atom
\* placed farther than the tolerance from every ideal site, defect
\* classification reports exactly one interstitial, at the position of the
\* extra atom.
OneAdded(extra) ==
    /\ extra \notin det.ideal
    /\ det.actual = det.ideal \cup {extra}
    /\ \A site \in det.ideal : 2 * Abs(extra - site) > StepsPerUnit

C21_OneInterstitialAtExtraAtom ==
    \A extra \in Grid :
        (Classified /\ OneAdded(extra))
        => (det.interstitial.kind = "list" /\ det.interstitial.val = {extra})

\* C24: the reference lattice is never empty or partial: when no lattice can
\* be generated for the structure the detectors end with
\* UnsupportedLatticeError, and otherwise they compare against every ideal
\* site of the structure.
C24_NoEmptyReferenceLattice ==
    det.op = "detectors"
    => \/ /\ det.vacancy = Raise("UnsupportedLatticeError")
          /\ det.interstitial = Raise("UnsupportedLatticeError")
       \/ /\ det.vacancy.kind = "list"
          /\ det.reference.points = det.ideal

\* C25: in the formation-energy mapping a category whose energy could not be
\* evaluated has no entry at all.  The detector has no energy evaluator (the
\* two energy methods are placeholders), so no category can be evaluated and
\* the mapping has to be empty; a zero never stands for a missing energy.
C25_NoEnergyWithoutEvaluator ==
    det.op = "estimators" => DOMAIN det.energies = {}

\* C26: defect_concentration equals the number of reported defect sites over
\* all categories divided by the number of ideal-lattice sites; it is not
\* zero when a defect is reported.
RECURSIVE SumCard(_, _)
SumCard(defects, kinds) ==
    IF kinds = {} THEN 0
    ELSE LET k == CHOOSE x \in kinds : TRUE
         IN  Cardinality(defects[k]) + SumCard(defects, kinds \ {k})

C26_ConcentrationIsDefectsOverSites ==
    det.op = "estimators"
    => det.concentration * Cardinality(det.ideal) = SumCard(det.defects, DefectKinds)


\* C27: no stage mutates the structure record that another stage receives:
\* from Dispatch to the end of Predict every step leaves the structure of the
\* request as Fetch returned it, whatever the order in which the stages run.
C27_StructureNeverMutated ==
    [][\A r \in DOMAIN req :
         req[r].pc \in {"Dispatch", "Join", "Predict"}
         => req'[r].structure = req[r].structure]_vars

C27_Witness ==
    \E r \in DOMAIN req :
        /\ req[r].pc = "Predict"
        /\ req[r].structure = req[r].id
        /\ \A s \in Stages : req[r].stage[s] = "rec"

\* C28: a put that fails part-way leaves the cache of id as it was before the
\* call, with no entry or with the complete previous entry; it leaves no
\* truncated entry.  The Store of a run is such a put.
C28_FailedPutLeavesCacheIntact ==
    [][/\ \A id \in Ids, p \in DirectPayloads :
            (Put(id, p) /\ lop'.ret.kind = "raise") => cache' = cache
       /\ \A r \in DOMAIN req :
            (Store(r) /\ req'[r].pc = "Error") => cache' = cache]_vars

\* C29: run treats every existing, unexpired entry of id as a hit, whatever
\* its payload: the request ends at CacheCheck with the stored payload, also
\* when that payload is empty.
C29_EveryFreshEntryIsHit ==
    [][\A r \in DOMAIN req :
         (/\ CacheCheck(r)
          /\ req[r].id \in DOMAIN cache
          /\ Loadable(cache[req[r].id])
          /\ ~Expired(cache[req[r].id], DefaultMaxAgeDays, now))
         => /\ req'[r].pc = "Done"
            /\ req'[r].ret = Payload(json_load(cache[req[r].id]))]_vars

\* C30: a get that hits leaves the cache unchanged: neither the timestamp nor
\* the payload of the entry is modified, so a read never extends the
\* lifetime of an entry.  The get of CacheCheck is such a get.
C30_HitLeavesCacheUnchanged ==
    [][/\ \A id \in Ids, m \in MaxAges :
            (Get(id, m) /\ lop'.ret.kind = "payload") => cache' = cache
       /\ \A r \in DOMAIN req :
            (CacheCheck(r) /\ req'[r].cached.kind = "payload") => cache' = cache]_vars

C30_Witness ==
    /\ lop.op = "get"
    /\ lop.ret.kind = "payload"
    /\ lop.id \in DOMAIN cache
    /\ lop.max_age_days = 1
    /\ fromisoformat(cache[lop.id].timestamp) < now


\* C31: purge(max_age) removes every expired entry even when some entry of
\* the cache directory is unreadable: after the purge no readable entry older
\* than max_age is left, whatever else the directory holds.
C31_PurgeSurvivesCorruptEntry ==
    [][\A m \in MaxAges, order \in ListDirOrders(cache) :
         Purge(FALSE, m, order) =>
            \A i \in DOMAIN cache :
                (Loadable(cache[i]) /\ Expired(cache[i], m, now))
                => i \notin DOMAIN cache']_vars


\* C32: on one orchestrator serving requests for different structures, the
\* multislice of a request's imaging stage is given the potential computed
\* from that request's own structure, never one kept from an earlier request.
C32_PotentialOfOwnStructure ==
    tem.multisliced # NoPotential
    => tem.multisliced.id = tem.structure_data.id

\* C33: whenever simulate_hrtem reads the contrast-transfer function of the
\* orchestrator's calculator, setup_microscope has assigned it.
C33_CtfSetWhenRead ==
    tem.pc = "apply_ctf" => tem.ctf # "unset"

\* C34: every run(id) terminates: when every collaborator call returns or
\* raises, a request that was started reaches Done or ends with an error; it
\* does not stay at the join of the four stages forever.
Running(rq) == rq.pc \notin {"Idle", "Done", "Error"}

C34_RunTerminates ==
    \A r \in Reqs : Running(req[r]) ~> Ended(req[r])

\* a request went through the join of its four stages and returned
C34_Witness ==
    \E r \in Reqs :
        /\ req[r].pc = "Done"
        /\ JoinReady(req[r].stage)
        /\ req[r].predictions # "idle"

====
